---- MODULE Spec2Model ----
(***************************************************************************)
(* Model of copy_field_to_table_rows.py: copying the invoice_date field    *)
(* of a document into the line_item_start_date column of every data row    *)
(* of the document's table.                                                *)
(*                                                                         *)
(* A document is a Python dict with the optional keys moderated_boxes and  *)
(* predicted_boxes.  It is modelled as a record                            *)
(*   [has_m, m, has_p, p]                                                  *)
(* where has_m / has_p say whether the key is present and m / p are the    *)
(* element lists (<<>> when the key is absent).  An element is a record    *)
(*   [type, label, ocr_text, has_cells, cells]                             *)
(* and a cell is a record [row, col, label, text].  The constant metadata  *)
(* of generated tables and cells (geometry, score, status, the timestamp   *)
(* id) is never read by the code and is left out.                          *)
(***************************************************************************)
EXTENDS Integers, Sequences, FiniteSets

VARIABLES input_data, last, calls

vars == <<input_data, last, calls>>

----------------------------------------------------------------------------
(* Bounds of the model *)

MaxRow == 2
MaxCol == 2
MaxCells == 2
MaxElems == 2
MaxCalls == 2

(* Encodings of Python values that are not integers *)

\* a cell whose "row" is None: not an integer, `None > 0` raises TypeError
NoneRow == -1
\* a cell without a "col" key: cell.get("col", 0) yields 0
NoCol == -1

TARGET == "line_item_start_date"
SOURCE == "invoice_date"

----------------------------------------------------------------------------
(* The functions of copy_field_to_table_rows.py *)

\* Python truthiness of document.get("moderated_boxes")
truthy_moderated(document) == document.has_m /\ document.m # <<>>

\* document.get("moderated_boxes", []) if document.get("moderated_boxes")
\*   else document.get("predicted_boxes", [])
boxes_of(document) ==
  IF truthy_moderated(document) THEN document.m
  ELSE IF document.has_p THEN document.p ELSE <<>>

RECURSIVE field_scan(_, _, _)
field_scan(boxes, field_label, k) ==
  IF k > Len(boxes) THEN ""
  ELSE IF boxes[k].type = "field" /\ boxes[k].label = field_label
       THEN boxes[k].ocr_text
       ELSE field_scan(boxes, field_label, k + 1)

\* Variant of get_field_value that falls back to the other list when the
\* authoritative one has no match.
get_field_value_fallback(document, field_label) ==
  LET first == field_scan(boxes_of(document), field_label, 1) IN
  IF first # "" THEN first
  ELSE field_scan(IF truthy_moderated(document) THEN document.p
                  ELSE document.m, field_label, 1)

get_field_value(document, field_label) ==
  field_scan(boxes_of(document), field_label, 1)

RECURSIVE table_scan(_, _)
\* index of the first element of type table, 0 when there is none
table_scan(boxes, k) ==
  IF k > Len(boxes) THEN 0
  ELSE IF boxes[k].type = "table" THEN k
       ELSE table_scan(boxes, k + 1)

new_table ==
  [type |-> "table", label |-> "table", ocr_text |-> "table",
   has_cells |-> TRUE, cells |-> <<>>]

\* Result: the document after the call, whether the call raised, and the
\* place (list, index) of the table object it returned.
find_or_create_table(document) ==
  LET found == table_scan(boxes_of(document), 1) IN
  IF found > 0
    THEN [doc |-> document, raised |-> FALSE,
          lst |-> IF truthy_moderated(document) THEN "moderated_boxes"
                  ELSE "predicted_boxes",
          idx |-> found]
  ELSE IF truthy_moderated(document)
    THEN [doc |-> [document EXCEPT !.m = Append(@, new_table)],
          raised |-> FALSE, lst |-> "moderated_boxes",
          idx |-> Len(document.m) + 1]
  ELSE IF document.has_p
    THEN [doc |-> [document EXCEPT !.p = Append(@, new_table)],
          raised |-> FALSE, lst |-> "predicted_boxes",
          idx |-> Len(document.p) + 1]
  \* document["predicted_boxes"] raises KeyError
  ELSE [doc |-> document, raised |-> TRUE, lst |-> "none", idx |-> 0]

\* the table object a find_or_create_table result refers to
table_at(document, lst, idx) ==
  IF lst = "moderated_boxes" THEN document.m[idx] ELSE document.p[idx]

put_table(document, lst, idx, table) ==
  IF lst = "moderated_boxes"
    THEN [document EXCEPT !.m[idx] = table]
    ELSE [document EXCEPT !.p[idx] = table]

\* table.get("cells", [])
cells_of(table) == IF table.has_cells THEN table.cells ELSE <<>>

RECURSIVE cell_scan_col(_, _, _, _)
\* Variant of cell_scan that compares the cell's col, not its row, with
\* row_idx.
cell_scan_col(cells, row_idx, label, k) ==
  IF k > Len(cells) THEN 0
  ELSE IF cells[k].col = row_idx /\ cells[k].label = label THEN k
       ELSE cell_scan_col(cells, row_idx, label, k + 1)

RECURSIVE cell_scan(_, _, _, _)
\* index of the first cell with the given row and label, 0 when none
cell_scan(cells, row_idx, label, k) ==
  IF k > Len(cells) THEN 0
  ELSE IF cells[k].row = row_idx /\ cells[k].label = label THEN k
       ELSE cell_scan(cells, row_idx, label, k + 1)

\* cell.get("col", 0)
col_of(cell) == IF cell.col = NoCol THEN 0 ELSE cell.col

RECURSIVE max_col_count(_, _, _, _)
\* Variant of max_col_loop that counts the cells of the row instead of
\* taking their largest col.
max_col_count(cells, row_idx, k, max_col) ==
  IF k > Len(cells) THEN max_col
  ELSE IF cells[k].row = row_idx
       THEN max_col_count(cells, row_idx, k + 1, max_col + 1)
       ELSE max_col_count(cells, row_idx, k + 1, max_col)

RECURSIVE max_col_loop(_, _, _, _)
max_col_loop(cells, row_idx, k, max_col) ==
  IF k > Len(cells) THEN max_col
  ELSE IF cells[k].row = row_idx
       THEN max_col_loop(cells, row_idx, k + 1,
              IF col_of(cells[k]) > max_col THEN col_of(cells[k]) ELSE max_col)
       ELSE max_col_loop(cells, row_idx, k + 1, max_col)

\* Variant of set_cell_value without the update in place: it appends a new
\* cell on every call.
set_cell_value_append(document, row_idx, label, value) ==
  LET f == find_or_create_table(document) IN
  IF f.raised THEN [doc |-> f.doc, raised |-> TRUE]
  ELSE
    LET table == table_at(f.doc, f.lst, f.idx)
        cells == cells_of(table)
        new_cell == [row |-> row_idx,
                     col |-> max_col_loop(cells, row_idx, 1, 0) + 1,
                     label |-> label, text |-> value]
    IN [doc |-> put_table(f.doc, f.lst, f.idx,
                  [table EXCEPT !.has_cells = TRUE,
                                !.cells = Append(cells, new_cell)]),
        raised |-> FALSE]

set_cell_value(document, row_idx, label, value) ==
  LET f == find_or_create_table(document) IN
  IF f.raised THEN [doc |-> f.doc, raised |-> TRUE]
  ELSE
    LET table == table_at(f.doc, f.lst, f.idx)
        cells == cells_of(table)
        hit   == cell_scan(cells, row_idx, label, 1)
    IN
    IF hit > 0
      THEN [doc |-> put_table(f.doc, f.lst, f.idx,
                      [table EXCEPT !.cells[hit].text = value]),
            raised |-> FALSE]
      ELSE
        LET new_cell == [row |-> row_idx,
                         col |-> max_col_loop(cells, row_idx, 1, 0) + 1,
                         label |-> label, text |-> value]
        IN [doc |-> put_table(f.doc, f.lst, f.idx,
                      [table EXCEPT !.has_cells = TRUE,
                                    !.cells = Append(cells, new_cell)]),
            raised |-> FALSE]

RECURSIVE row_keys(_, _, _)
row_keys(cells, k, keys) ==
  IF k > Len(cells) THEN keys
  ELSE IF \E j \in 1..Len(keys) : keys[j] = cells[k].row
       THEN row_keys(cells, k + 1, keys)
       ELSE row_keys(cells, k + 1, Append(keys, cells[k].row))

\* The keys of the dict group_cells_by_row returns, in insertion order
\* (the copy operation reads nothing else of it).
group_cells_by_row(table) ==
  IF ~table.has_cells THEN <<>> ELSE row_keys(table.cells, 1, <<>>)

RECURSIVE copy_loop_break(_, _, _, _)
\* Variant of copy_loop that leaves the loop after the first row it wrote.
copy_loop_break(document, rows, k, invoice_date) ==
  IF k > Len(rows) THEN [doc |-> document, caught |-> FALSE]
  ELSE IF rows[k] = NoneRow
    THEN [doc |-> document, caught |-> TRUE]
  ELSE IF rows[k] > 0
    THEN LET s == set_cell_value(document, rows[k], TARGET, invoice_date) IN
         [doc |-> s.doc, caught |-> s.raised]
  ELSE copy_loop_break(document, rows, k + 1, invoice_date)

RECURSIVE copy_loop_header(_, _, _, _)
\* Variant of copy_loop that writes the header row too (row_idx >= 0).
copy_loop_header(document, rows, k, invoice_date) ==
  IF k > Len(rows) THEN [doc |-> document, caught |-> FALSE]
  ELSE IF rows[k] = NoneRow
    THEN [doc |-> document, caught |-> TRUE]
  ELSE LET s == set_cell_value(document, rows[k], TARGET, invoice_date) IN
       IF s.raised THEN [doc |-> s.doc, caught |-> TRUE]
       ELSE copy_loop_header(s.doc, rows, k + 1, invoice_date)

RECURSIVE copy_loop(_, _, _, _)
\* for row_idx in rows.keys(): if row_idx > 0: set_cell_value(...)
copy_loop(document, rows, k, invoice_date) ==
  IF k > Len(rows) THEN [doc |-> document, caught |-> FALSE]
  ELSE IF rows[k] = NoneRow
    \* None > 0 raises TypeError, caught by the except clause
    THEN [doc |-> document, caught |-> TRUE]
  ELSE IF rows[k] > 0
    THEN LET s == set_cell_value(document, rows[k], TARGET, invoice_date) IN
         IF s.raised THEN [doc |-> s.doc, caught |-> TRUE]
         ELSE copy_loop(s.doc, rows, k + 1, invoice_date)
  ELSE copy_loop(document, rows, k + 1, invoice_date)

\* Variant of copy_invoice_date_to_line_items that looks for the table
\* before it reads the field.
copy_eager_table(document) ==
  LET f == find_or_create_table(document)
      invoice_date == get_field_value(document, SOURCE)
  IN
  IF f.raised
    THEN [doc |-> f.doc, caught |-> TRUE, raised |-> FALSE]
  ELSE IF invoice_date = ""
    THEN [doc |-> f.doc, caught |-> FALSE, raised |-> FALSE]
  ELSE
    LET rows == group_cells_by_row(table_at(f.doc, f.lst, f.idx))
        r == copy_loop(f.doc, rows, 1, invoice_date)
    IN [doc |-> r.doc, caught |-> r.caught, raised |-> FALSE]

\* Variant of copy_invoice_date_to_line_items without the except clause:
\* an exception leaves the function.
copy_propagates(document) ==
  LET invoice_date == get_field_value(document, SOURCE) IN
  IF invoice_date = ""
    THEN [doc |-> document, caught |-> FALSE, raised |-> FALSE]
  ELSE
    LET f == find_or_create_table(document) IN
    IF f.raised
      THEN [doc |-> f.doc, caught |-> FALSE, raised |-> TRUE]
    ELSE
      LET rows == group_cells_by_row(table_at(f.doc, f.lst, f.idx))
          r == copy_loop(f.doc, rows, 1, invoice_date)
      IN [doc |-> r.doc, caught |-> FALSE, raised |-> r.caught]

\* Result: the document returned, whether an exception was caught on the
\* way, and whether one left the function (never: the except clause
\* catches every Exception).
copy_invoice_date_to_line_items(document) ==
  LET invoice_date == get_field_value(document, SOURCE) IN
  IF invoice_date = ""
    THEN [doc |-> document, caught |-> FALSE, raised |-> FALSE]
  ELSE
    LET f == find_or_create_table(document) IN
    IF f.raised
      THEN [doc |-> f.doc, caught |-> TRUE, raised |-> FALSE]
    ELSE
      LET rows == group_cells_by_row(table_at(f.doc, f.lst, f.idx))
          r == copy_loop(f.doc, rows, 1, invoice_date)
      IN [doc |-> r.doc, caught |-> r.caught, raised |-> FALSE]

RECURSIVE handler_loop(_, _)
\* for document in input_data: copy_invoice_date_to_line_items(document)
handler_loop(data, k) ==
  IF k > Len(data) THEN [data |-> data, raised |-> FALSE]
  ELSE LET r == copy_invoice_date_to_line_items(data[k]) IN
       IF r.raised
         THEN [data |-> [data EXCEPT ![k] = r.doc], raised |-> TRUE]
         ELSE handler_loop([data EXCEPT ![k] = r.doc], k + 1)

handler(data) == handler_loop(data, 1)

----------------------------------------------------------------------------
(* The documents the model starts from *)

Field(label, text) ==
  [type |-> "field", label |-> label, ocr_text |-> text,
   has_cells |-> FALSE, cells |-> <<>>]

Table(cells) ==
  [type |-> "table", label |-> "table", ocr_text |-> "table",
   has_cells |-> TRUE, cells |-> cells]

\* a table element without a "cells" key
TableNoCells ==
  [type |-> "table", label |-> "table", ocr_text |-> "table",
   has_cells |-> FALSE, cells |-> <<>>]

Cell(row, col, label) ==
  [row |-> row, col |-> col, label |-> label, text |-> "old"]

Absent == [has |-> FALSE, list |-> <<>>]
Present(list) == [has |-> TRUE, list |-> list]

Doc(mod, pred) ==
  [has_m |-> mod.has, m |-> mod.list, has_p |-> pred.has, p |-> pred.list]

SeqsUpTo(S, n) == UNION {[1..k -> S] : k \in 0..n}

\* §3: at most one cell per (row, label) pair
UniquePairs(cells) ==
  \A j, k \in 1..Len(cells) :
    (cells[j].row = cells[k].row /\ cells[j].label = cells[k].label) => j = k

\* tables that vary the rows (integer or None) and the labels
RowCells ==
  {Cell(r, 1, l) : r \in (0..MaxRow) \cup {NoneRow}, l \in {"item", TARGET}}
RowTables == {c \in SeqsUpTo(RowCells, MaxCells) : UniquePairs(c)}

\* tables that vary the columns of the cells of row 1
ColCells ==
  {Cell(1, c, l) : c \in (1..MaxCol) \cup {NoCol}, l \in {"item", "quantity"}}
ColTables == {c \in SeqsUpTo(ColCells, MaxCells) : UniquePairs(c)}

\* element lists that vary the fields, the tables and their order
Elems ==
  {Field(SOURCE, ""), Field(SOURCE, "D1"), Field("due_date", "D2"),
   Table(<<Cell(1, 1, "item")>>), TableNoCells}
ElemLists == SeqsUpTo(Elems, MaxElems)

\* a predicted list that is shadowed by a non-empty moderated list
Shadowed == <<Field(SOURCE, "D2"), Table(<<Cell(2, 1, "item")>>)>>

TableDocs ==
  {Doc(Absent, Present(<<Field(SOURCE, "D1"), Table(c)>>)) :
     c \in RowTables \cup ColTables}

ListDocs ==
  UNION {{Doc(Absent, Present(l)), Doc(Present(<<>>), Present(l)),
          Doc(Present(l), Absent), Doc(Present(l), Present(Shadowed))} :
         l \in ElemLists}
  \cup {Doc(Absent, Absent)}

BatchDocs ==
  {Doc(Absent, Present(<<Field(SOURCE, "D1"), Table(c)>>)) :
     c \in {<<Cell(0, 1, "item"), Cell(1, 1, "item")>>,
            <<Cell(1, 1, "item"), Cell(NoneRow, 1, "item")>>,
            <<Cell(NoneRow, 1, "item"), Cell(1, 1, "item")>>}}
  \cup {Doc(Absent, Present(<<Table(<<Cell(1, 1, "item")>>)>>))}

InitBatches ==
  {<<d>> : d \in TableDocs \cup ListDocs}
  \cup {<<a, b>> : a \in BatchDocs, b \in BatchDocs}

----------------------------------------------------------------------------
(* The state machine: the calls a client can make *)

\* The record of the latest call: its name and arguments, the batch before
\* it (pre), what it returned or raised, whether it repeats a copy of the
\* same document (rep) and whether the call before it changed the batch.
NoCall ==
  [op |-> "init", i |-> 0, pre |-> <<>>, row |-> 0, label |-> "",
   value |-> "", ret |-> "", lst |-> "none", idx |-> 0,
   raised |-> FALSE, caught |-> FALSE, rep |-> FALSE, changed |-> FALSE]

Init ==
  /\ input_data \in InitBatches
  /\ last = NoCall
  /\ calls = 0

\* copy_invoice_date_to_line_items(input_data[i])
CallCopy(i) ==
  /\ calls < MaxCalls
  /\ LET r == copy_invoice_date_to_line_items(input_data[i]) IN
     /\ input_data' = [input_data EXCEPT ![i] = r.doc]
     /\ last' = [NoCall EXCEPT !.op = "copy", !.i = i, !.pre = input_data,
                   !.raised = r.raised, !.caught = r.caught,
                   !.rep = (last.op = "handler"
                            \/ (last.op = "copy" /\ last.i = i)),
                   !.changed = (last.pre # input_data)]
  /\ calls' = calls + 1

\* get_field_value(input_data[i], label)
CallGetFieldValue(i, label) ==
  /\ calls < MaxCalls
  /\ last' = [NoCall EXCEPT !.op = "get", !.i = i, !.pre = input_data,
                !.label = label,
                !.ret = get_field_value(input_data[i], label)]
  /\ calls' = calls + 1
  /\ UNCHANGED input_data

\* find_or_create_table(input_data[i])
CallFindOrCreateTable(i) ==
  /\ calls < MaxCalls
  /\ LET f == find_or_create_table(input_data[i]) IN
     /\ input_data' = [input_data EXCEPT ![i] = f.doc]
     /\ last' = [NoCall EXCEPT !.op = "find", !.i = i, !.pre = input_data,
                   !.lst = f.lst, !.idx = f.idx, !.raised = f.raised]
  /\ calls' = calls + 1

\* set_cell_value(input_data[i], row_idx, label, value)
CallSetCellValue(i, row_idx, label, value) ==
  /\ calls < MaxCalls
  /\ LET s == set_cell_value(input_data[i], row_idx, label, value) IN
     /\ input_data' = [input_data EXCEPT ![i] = s.doc]
     /\ last' = [NoCall EXCEPT !.op = "set", !.i = i, !.pre = input_data,
                   !.row = row_idx, !.label = label, !.value = value,
                   !.raised = s.raised]
  /\ calls' = calls + 1

\* handler(input_data)
CallHandler ==
  /\ calls < MaxCalls
  /\ LET h == handler(input_data) IN
     /\ input_data' = h.data
     /\ last' = [NoCall EXCEPT !.op = "handler", !.pre = input_data,
                   !.raised = h.raised,
                   !.rep = (last.op = "handler"),
                   !.changed = (last.pre # input_data)]
  /\ calls' = calls + 1

Next ==
  \/ \E i \in 1..Len(input_data) : CallCopy(i)
  \/ \E i \in 1..Len(input_data), label \in {SOURCE, "due_date"} :
       CallGetFieldValue(i, label)
  \/ \E i \in 1..Len(input_data) : CallFindOrCreateTable(i)
  \/ \E i \in 1..Len(input_data), row_idx \in 0..MaxRow,
        label \in {"item", TARGET} :
       CallSetCellValue(i, row_idx, label, "D2")
  \/ CallHandler

Spec == Init /\ [][Next]_vars

----------------------------------------------------------------------------
(* Vocabulary of the properties, stated on the data and not through the    *)
(* functions above                                                         *)

\* the authoritative list: moderated_boxes when present and non-empty,
\* predicted_boxes otherwise
Authoritative(d) == IF d.has_m /\ Len(d.m) > 0 THEN d.m ELSE d.p

IsField(e, label) == e.type = "field" /\ e.label = label

HasField(list, label) == \E k \in 1..Len(list) : IsField(list[k], label)

\* the text of the first field with the label, "" when there is none
FieldText(list, label) ==
  IF HasField(list, label)
    THEN list[CHOOSE k \in 1..Len(list) :
                /\ IsField(list[k], label)
                /\ \A j \in 1..(k - 1) : ~IsField(list[j], label)].ocr_text
    ELSE ""

TableIndices(list) == {k \in 1..Len(list) : list[k].type = "table"}

\* the cells of the first table of the list, <<>> when there is none
TableCells(list) ==
  IF TableIndices(list) = {} THEN <<>>
  ELSE list[CHOOSE k \in TableIndices(list) :
              \A j \in TableIndices(list) : k <= j].cells

IntegerRows(cells) == \A k \in 1..Len(cells) : cells[k].row # NoneRow

\* every row > 0 among rows holds a target cell with the text
RowsFilled(cells, rows, text) ==
  \A r \in rows :
    r > 0 => \E k \in 1..Len(cells) :
               cells[k].row = r /\ cells[k].label = TARGET
               /\ cells[k].text = text

RowSet(cells) == {cells[k].row : k \in 1..Len(cells)}

PreDoc == last.pre[last.i]
PostDoc == input_data[last.i]

----------------------------------------------------------------------------
(* C1 *)

C1_Applies(d) ==
  /\ FieldText(Authoritative(d), SOURCE) # ""
  /\ TableIndices(Authoritative(d)) # {}
  /\ IntegerRows(TableCells(Authoritative(d)))

\* C1: for a document whose authoritative list holds an invoice_date field
\* with non-empty ocr_text and a table whose cells have integer row indices,
\* after copy_invoice_date_to_line_items every row index r > 0 that was
\* present in the table has a line_item_start_date cell whose text is the
\* invoice_date value.
C1_RowsReceiveInvoiceDate ==
  (last.op = "copy" /\ C1_Applies(PreDoc)) =>
    RowsFilled(TableCells(Authoritative(PostDoc)),
               RowSet(TableCells(Authoritative(PreDoc))),
               FieldText(Authoritative(PreDoc), SOURCE))

\* a copy over two data rows, one that had no target cell and one whose
\* target cell held another text
C1_Witness ==
  /\ last.op = "copy"
  /\ C1_Applies(PreDoc)
  /\ LET cells == TableCells(Authoritative(PreDoc)) IN
     /\ \E r \in RowSet(cells) :
          r > 0 /\ \A k \in 1..Len(cells) :
                     cells[k].row = r => cells[k].label # TARGET
     /\ \E k \in 1..Len(cells) :
          cells[k].row > 0 /\ cells[k].label = TARGET
          /\ cells[k].text # FieldText(Authoritative(PreDoc), SOURCE)

----------------------------------------------------------------------------
(* C2 *)

\* C2: for a document with no invoice_date field, or whose invoice_date
\* field has an empty ocr_text, copy_invoice_date_to_line_items leaves the
\* document as it was, in moderated_boxes and in predicted_boxes: no table
\* is created, no cell is added and no text is changed.
C2_NoFieldNoChange ==
  (last.op = "copy" /\ FieldText(Authoritative(PreDoc), SOURCE) = "") =>
    input_data = last.pre

\* a copy on a document whose invoice_date field is empty and whose table
\* has a data row, and one on a document with neither the field nor a table
C2_Witness ==
  /\ last.op = "copy"
  /\ LET list == Authoritative(PreDoc) IN
     /\ HasField(list, SOURCE)
     /\ FieldText(list, SOURCE) = ""
     /\ \E r \in RowSet(TableCells(list)) : r > 0

----------------------------------------------------------------------------
(* C3 *)

\* C3: running copy_invoice_date_to_line_items a second time in sequence on
\* a document leaves its element lists and table cells as the first run
\* left them; the second run appends no cell and no table.
C3_CopyIdempotent ==
  (last.op \in {"copy", "handler"} /\ last.rep) => input_data = last.pre

\* a second run that follows a first run which changed the document
C3_Witness ==
  /\ last.op = "copy"
  /\ last.rep
  /\ last.changed
  /\ \E k \in 1..Len(TableCells(Authoritative(PostDoc))) :
       TableCells(Authoritative(PostDoc))[k].label = TARGET

----------------------------------------------------------------------------
(* C4 *)

AllTables ==
  UNION {{d.m[k] : k \in TableIndices(d.m)} \cup
         {d.p[k] : k \in TableIndices(d.p)} :
           d \in {input_data[i] : i \in 1..Len(input_data)}}

PairCount(cells, row, label) ==
  Cardinality({k \in 1..Len(cells) :
                 cells[k].row = row /\ cells[k].label = label})

\* C4: after a set_cell_value write and after any number of runs of the copy
\* operation, every table holds at most one cell for each (row, label) pair.
C4_OneCellPerRowLabel ==
  (last.op \in {"set", "copy", "handler"}) =>
    \A t \in AllTables :
      \A k \in 1..Len(t.cells) :
        PairCount(t.cells, t.cells[k].row, t.cells[k].label) = 1

\* a write to a (row, label) pair that an earlier call had already written
C4_Witness ==
  /\ last.op = "set"
  /\ ~last.raised
  /\ calls = MaxCalls
  /\ PairCount(TableCells(Authoritative(PreDoc)), last.row, last.label) = 1
  /\ PairCount(TableCells(Authoritative(PostDoc)), last.row, last.label) = 1
  /\ PostDoc # PreDoc

----------------------------------------------------------------------------
(* C5 *)

TableCount(d) == Cardinality(TableIndices(Authoritative(d)))

FirstTableIndex(list) ==
  CHOOSE k \in TableIndices(list) : \A j \in TableIndices(list) : k <= j

\* C5: find_or_create_table is idempotent.  A call on a document without a
\* table, made directly or through set_cell_value or the copy operation,
\* appends exactly one table to the authoritative list, a call on a document
\* with a table appends none, and every call returns the first table of the
\* authoritative list.
C5_FindOrCreateIdempotent ==
  /\ (last.op \in {"find", "set"}) =>
       /\ ~last.raised
       /\ TableCount(PostDoc) = (IF TableCount(PreDoc) = 0 THEN 1
                                 ELSE TableCount(PreDoc))
  /\ (last.op = "find" /\ ~last.raised) =>
       /\ last.lst = (IF PostDoc.has_m /\ Len(PostDoc.m) > 0
                      THEN "moderated_boxes" ELSE "predicted_boxes")
       /\ last.idx = FirstTableIndex(Authoritative(PostDoc))
       /\ TableCount(PreDoc) > 0 => PostDoc = PreDoc
  /\ (last.op = "copy") =>
       TableCount(PostDoc) \in {TableCount(PreDoc), 1}

----------------------------------------------------------------------------
(* C6 *)

\* C6: handler processes every document of the collection in order and
\* returns the same collection without propagating an exception; every
\* valid document gets the line_item_start_date cell in every row > 0,
\* whatever happened to the documents before and after it.
C6_BatchIsolation ==
  (last.op = "handler") =>
    /\ ~last.raised
    /\ Len(input_data) = Len(last.pre)
    /\ \A i \in 1..Len(last.pre) :
         C1_Applies(last.pre[i]) =>
           RowsFilled(TableCells(Authoritative(input_data[i])),
                      RowSet(TableCells(Authoritative(last.pre[i]))),
                      FieldText(Authoritative(last.pre[i]), SOURCE))

\* the field is there but a cell of the table has a row that is no integer
Malformed(d) ==
  /\ FieldText(Authoritative(d), SOURCE) # ""
  /\ ~IntegerRows(TableCells(Authoritative(d)))

\* a batch of a malformed document followed by a valid one with a data row
\* that had no target cell
C6_Witness ==
  /\ last.op = "handler"
  /\ Len(last.pre) = 2
  /\ Malformed(last.pre[1])
  /\ C1_Applies(last.pre[2])
  /\ \E r \in RowSet(TableCells(Authoritative(last.pre[2]))) : r > 0
  /\ input_data[2] # last.pre[2]

----------------------------------------------------------------------------
(* C7 *)

\* the largest col among the cells of the row, a missing col counting as 0
\* and a row without cells as 0
RowMaxCol(cells, row) ==
  LET cols == {IF cells[k].col = NoCol THEN 0 ELSE cells[k].col :
                 k \in {j \in 1..Len(cells) : cells[j].row = row}} \cup {0}
  IN CHOOSE m \in cols : \A c \in cols : c <= m

\* C7: when set_cell_value finds no cell with the given (row, label), the
\* cell it appends has col = (largest col among the cells of that row) + 1,
\* which is 1 for a row without cells.
C7_ColumnAssignment ==
  (/\ last.op = "set"
   /\ ~last.raised
   /\ PairCount(TableCells(Authoritative(PreDoc)), last.row, last.label) = 0)
  =>
    LET before == TableCells(Authoritative(PreDoc))
        after  == TableCells(Authoritative(PostDoc))
    IN /\ Len(after) = Len(before) + 1
       /\ after[Len(after)] =
            [row |-> last.row, col |-> RowMaxCol(before, last.row) + 1,
             label |-> last.label, text |-> last.value]

\* a new label written to a row whose cells are at columns 1 and 2
C7_Witness ==
  /\ last.op = "set"
  /\ ~last.raised
  /\ LET before == TableCells(Authoritative(PreDoc))
         after  == TableCells(Authoritative(PostDoc))
     IN /\ PairCount(before, last.row, last.label) = 0
        /\ {before[k].col : k \in {j \in 1..Len(before) :
                                     before[j].row = last.row}} = {1, 2}
        /\ after[Len(after)].col = 3

----------------------------------------------------------------------------
(* C8 *)

\* C8: get_field_value returns the ocr_text of the first field element with
\* the given label in the authoritative list, and "" when that list has
\* none, whatever the other list holds and whichever keys are absent.
C8_FieldFromAuthoritativeList ==
  (last.op = "get") =>
    last.ret = FieldText(Authoritative(PreDoc), last.label)

\* the moderated list is authoritative and lacks the field, which the
\* predicted list has
C8_Witness ==
  /\ last.op = "get"
  /\ PreDoc.has_m /\ Len(PreDoc.m) > 0
  /\ ~HasField(PreDoc.m, last.label)
  /\ HasField(PreDoc.p, last.label)
  /\ FieldText(PreDoc.p, last.label) # ""
  /\ last.ret = ""

----------------------------------------------------------------------------
(* C9 *)

\* C9: find_or_create_table on a document without a table whose
\* moderated_boxes is absent or empty and whose predicted_boxes is absent
\* creates the list, appends one new table with no cells to it and returns
\* that table without raising.
C9_CreatesMissingList ==
  (/\ last.op = "find"
   /\ ~(PreDoc.has_m /\ Len(PreDoc.m) > 0)
   /\ ~PreDoc.has_p)
  =>
    /\ ~last.raised
    /\ TableCount(PostDoc) = 1
    /\ TableCells(Authoritative(PostDoc)) = <<>>

----------------------------------------------------------------------------
(* C10 *)

CellFrame(before, after) ==
  /\ after.row = before.row
  /\ after.col = before.col
  /\ after.label = before.label
  /\ (after.text # before.text) => (before.label = TARGET /\ before.row > 0)

ElementFrame(before, after) ==
  /\ after.type = before.type
  /\ after.label = before.label
  /\ after.ocr_text = before.ocr_text
  /\ after.has_cells = before.has_cells
  /\ Len(after.cells) >= Len(before.cells)
  /\ \A k \in 1..Len(before.cells) : CellFrame(before.cells[k], after.cells[k])
  /\ \A k \in (Len(before.cells) + 1)..Len(after.cells) :
       after.cells[k].row > 0 /\ after.cells[k].label = TARGET

ListFrame(before, after) ==
  /\ Len(after) >= Len(before)
  /\ \A k \in 1..Len(before) : ElementFrame(before[k], after[k])
  /\ \A k \in (Len(before) + 1)..Len(after) : after[k].type = "table"

DocFrame(before, after) ==
  /\ after.has_m = before.has_m
  /\ after.has_p = before.has_p
  /\ ListFrame(before.m, after.m)
  /\ ListFrame(before.p, after.p)

\* C10: the copy operation removes and reorders no element and no cell,
\* adds no cell to row 0 and changes no cell of row 0; of what was there it
\* changes nothing but the text of line_item_start_date cells in rows > 0.
C10_CopyFrame ==
  (last.op \in {"copy", "handler"}) =>
    /\ Len(input_data) = Len(last.pre)
    /\ \A i \in 1..Len(last.pre) : DocFrame(last.pre[i], input_data[i])

\* a copy that rewrote the target cell of a data row in a table whose
\* header row has a target cell too
C10_Witness ==
  /\ last.op = "copy"
  /\ PostDoc # PreDoc
  /\ LET before == TableCells(Authoritative(PreDoc))
         after  == TableCells(Authoritative(PostDoc))
     IN /\ \E k \in 1..Len(before) :
             before[k].row = 0 /\ before[k].label = TARGET
             /\ after[k] = before[k]
        /\ \E k \in 1..Len(before) :
             before[k].row > 0 /\ after[k].text # before[k].text

====
